---- MODULE Spec2Model ----
(***************************************************************************)
(* nsdbg: locate Titanfall 2, build a Wine/Proton environment, optionally  *)
(* start the EA app, run a debugger and tear the EA app down afterwards.   *)
(*                                                                         *)
(* Strings are sequences of tokens, so that concatenation (and therefore   *)
(* append_args / prepend_args and the f-strings of the source) is          *)
(* computed, not assumed.  An optional value is None or Some(v).           *)
(***************************************************************************)
EXTENDS Integers, Sequences, FiniteSets, TLC

VARIABLES
    os_name,        \* os.name
    pargs,          \* parsed command line: compat, debugger, no_ea, persist_ea
    environ,        \* os.environ: a function from the set names to strings
    steam,          \* what protontricks reports: lib_paths (non-empty?), apps
    cacheExe,       \* cache/x64dbg/release/x64/x64dbg.exe is a file
    eaInstalled,    \* <prefix>/drive_c/.../EADesktop.exe is a file
    procs,          \* names psutil.process_iter reports right now
    pc,             \* position of main()
    hist,           \* the positions main() has been at, in order
    error,          \* message of the exception that ended main(), if any
    abortedAt,      \* position at which that exception was raised
    game_dir,       \* Game.game_dir (optional string)
    p,              \* start_ea's local p: pid of the EA Popen handle, or NoPid
    ea,             \* main's local ea: pid of the handle, or NoPid (None)
    counter,        \* wait_for_ea's local counter
    checks,         \* number of is_ea_running calls made by wait_for_ea
    children,       \* processes spawned with Popen, in order
    exited,         \* pids of the children whose exit a wait() has collected
    signalled,      \* process groups that were sent SIGTERM by os.killpg
    child_env,      \* the env= mapping handed to the last run(), optional
    gameSteamQueries, \* Steam metadata queries made by Game.find_titanfall2
    downloads,      \* urlopen calls made by DebuggerX64DBG.__download
    extracts,       \* extractall calls made by DebuggerX64DBG.__download
    cacheHit,       \* optional: what os.path.isfile(path_64_exe) returned
    observed        \* optional: the process list maybe_start_ea's check looked at

worldVars == <<os_name, pargs, environ, steam>>
ghostVars == <<gameSteamQueries, downloads, extracts, cacheHit, observed>>
vars == <<os_name, pargs, environ, steam, cacheExe, eaInstalled, procs, pc, hist,
          error, abortedAt, game_dir, p, ea, counter, checks, children,
          exited, signalled, child_env, gameSteamQueries, downloads, extracts,
          cacheHit, observed>>

-----------------------------------------------------------------------------
(* Bounds of the model *)

\* wait_for_ea is followed for at most this many failed checks
MaxChecks == 12
\* SpecEnv: at most this many variables are set in the prior environment
MaxPreset == 2

-----------------------------------------------------------------------------
(* Values *)

None == <<>>
Some(v) == <<v>>
\* Python truthiness of an optional string: neither None nor ""
Truthy(o) == o # None /\ o[1] # <<>>

\* a one-token string
S(t) == <<t>>

\* main's "ea = None": no handle
NoPid == 0
\* the process group nsdbg itself runs in; children get pids from 2 on
OrchPgid == 1

TITANFALL2_APPID == 1237970
\* default of wait_for_ea's attempts parameter
WaitAttempts == 10

-----------------------------------------------------------------------------
(* dict and string helpers *)

\* dict.get(k): None when the key is absent
get(d, k) == IF k \in DOMAIN d THEN Some(d[k]) ELSE None

\* d[k] = v
assign(d, k, v) == (k :> v) @@ d

\* d.setdefault(k, v): a key that is present keeps its value, even ""
setdefault(d, k, v) == IF k \in DOMAIN d THEN d ELSE (k :> v) @@ d

prepend_args(x, y, delim) == IF Truthy(y) THEN y[1] \o delim \o x ELSE x

\* append_args that drops the existing value
append_args_Mut(x, y, delim) == x


append_args(x, y, delim) == IF Truthy(y) THEN x \o delim \o y[1] ELSE x

COLON == S(":")
SEMI == S(";")

\* str(x) inside an f-string: None prints as "None"
fstr(o) == IF o = None THEN S("None") ELSE o[1]

-----------------------------------------------------------------------------
(* CompatWine.run and CompatProton.run: the environment given to the child *)

WINE_DLL_OVERRIDES == S("wsock32=n")
PROTON_DLL_OVERRIDES ==
    S("wsock32=n,b;steam.exe=b;dotnetfx35.exe=b;dotnetfx35setup.exe=b;beclient.dll=b,n;beclient_x64.dll=b,n;d3d11=n;d3d10core=n;d3d9=n;dxgi=n;d3d12=n;d3d12core=n")

CompatWineEnv(env) ==
    LET e1 == setdefault(env, "TERM", S("xterm"))
        e2 == setdefault(e1, "WINEDEBUG", S("-all"))
        e3 == assign(e2, "WINEDLLOVERRIDES",
                     append_args(WINE_DLL_OVERRIDES, get(e2, "WINEDLLOVERRIDES"), SEMI))
        e4 == setdefault(e3, "DXVK_LOG_LEVEL", S("none"))
        e5 == setdefault(e4, "VKD3D_DEBUG", S("none"))
        e6 == setdefault(e5, "VKD3D_SHADER_DEBUG", S("none"))
    IN  e6

\* the segments CompatProton.run contributes to each path-list variable
ProtonPathSegments(self, k) ==
    CASE k = "PATH" -> self.compattool \o S("/files/bin")
      [] k = "WINEDLLPATH" ->
            self.compattool \o S("/files/lib64/wine") \o COLON
            \o self.compattool \o S("/files/lib/wine")
      [] k = "LD_LIBRARY_PATH" ->
            self.compattool \o S("/files/lib64/") \o COLON
            \o self.compattool \o S("/files/lib/") \o COLON
            \o fstr(self.game_dir)
      [] k = "GST_PLUGIN_SYSTEM_PATH_1_0" ->
            self.compattool \o S("/files/lib64/gstreamer-1.0") \o COLON
            \o self.compattool \o S("/files/lib/gstreamer-1.0")

\* CompatProton.__get_wineprefix
ProtonWineprefix(self) == self.compatdir \o S("/pfx")

CompatProtonEnv(env, self) ==
    LET e1  == setdefault(env, "TERM", S("xterm"))
        e2  == setdefault(e1, "SteamGameId", S("1237970"))
        e3  == setdefault(e2, "SteamAppId", S("1237970"))
        e4  == setdefault(e3, "STEAM_COMPAT_CLIENT_INSTALL_PATH", self.steam_path)
        e5  == setdefault(e4, "WINELOADAERNOEXEC", S("1"))
        e6  == assign(e5, "PATH",
                      append_args(ProtonPathSegments(self, "PATH"), get(e5, "PATH"), COLON))
        e7  == setdefault(e6, "WINEDEBUG", S("-all"))
        e8  == assign(e7, "WINEDLLPATH",
                      prepend_args(ProtonPathSegments(self, "WINEDLLPATH"),
                                   get(e7, "WINEDLLPATH"), COLON))
        e9  == setdefault(e8, "LD_LIBRARY_PATH",
                          append_args(ProtonPathSegments(self, "LD_LIBRARY_PATH"),
                                      get(e8, "LD_LIBRARY_PATH"), COLON))
        e10 == setdefault(e9, "WINEPREFIX", ProtonWineprefix(self))
        e11 == setdefault(e10, "WINEESYNC", S("1"))
        e12 == setdefault(e11, "WINEFSYNC", S("1"))
        e13 == assign(e12, "WINEDLLOVERRIDES",
                      append_args(PROTON_DLL_OVERRIDES, get(e12, "WINEDLLOVERRIDES"), SEMI))
        e14 == setdefault(e13, "WINE_LARGE_ADDRESS_AWARE", S("1"))
        e15 == assign(e14, "GST_PLUGIN_SYSTEM_PATH_1_0",
                      prepend_args(ProtonPathSegments(self, "GST_PLUGIN_SYSTEM_PATH_1_0"),
                                   get(e14, "GST_PLUGIN_SYSTEM_PATH_1_0"), COLON))
        e16 == setdefault(e15, "WINE_GST_REGISTRY_DIR", self.compatdir \o S("/gstreamer-1.0/"))
        e17 == setdefault(e16, "DXVK_LOG_LEVEL", S("none"))
        e18 == setdefault(e17, "VKD3D_DEBUG", S("none"))
        e19 == setdefault(e18, "VKD3D_SHADER_DEBUG", S("none"))
    IN  e19

-----------------------------------------------------------------------------
(* Inputs *)

TF2App == [appid |-> TITANFALL2_APPID, install_path |-> S("/steam/Titanfall2"),
           prefix_path |-> Some(S("/steam/compatdata/1237970/pfx"))]
TF2AppNoPrefix == [appid |-> TITANFALL2_APPID, install_path |-> S("/steam/Titanfall2"),
                   prefix_path |-> None]
OtherApp == [appid |-> 220, install_path |-> S("/steam/Half-Life 2"),
             prefix_path |-> None]

\* what find_steam_path / get_steam_lib_paths / get_steam_apps report
SteamConfigs ==
    { [lib_paths |-> FALSE, apps |-> <<>>],
      [lib_paths |-> TRUE,  apps |-> <<>>],
      [lib_paths |-> TRUE,  apps |-> <<OtherApp>>],
      [lib_paths |-> TRUE,  apps |-> <<OtherApp, TF2App>>],
      [lib_paths |-> TRUE,  apps |-> <<TF2AppNoPrefix>>] }

Pargs == [compat : {"wine", "proton"}, debugger : {"x64dbg", "winedbg"},
          no_ea : BOOLEAN, persist_ea : BOOLEAN]

\* environments of the orchestrator runs: only the variables main() reads vary
OrchEnvs ==
    { tf @@ wp @@ hm :
        tf \in { <<>>, "TF2_GAME_DIR" :> <<>>, "TF2_GAME_DIR" :> S("/override") },
        wp \in { <<>>, "WINEPREFIX" :> S("/prefix") },
        hm \in { <<>>, "HOME" :> S("/home/user") } }

ProcNames == {"EADesktop.exe", "EABackgroundSer", "explorer.exe"}

-----------------------------------------------------------------------------
(* Game *)

\* Game.__find_titanfall2_steam: [raised, ret]
find_titanfall2_steam(st) ==
    IF ~st.lib_paths
    THEN [raised |-> "Could not find Steam libraries", ret |-> None]
    ELSE IF st.apps = <<>>
    THEN [raised |-> "Could not find any steam apps", ret |-> None]
    ELSE LET hits == { i \in DOMAIN st.apps : st.apps[i].appid = TITANFALL2_APPID }
         IN  IF hits # {}
             THEN [raised |-> "",
                   ret |-> Some(st.apps[CHOOSE i \in hits : \A j \in hits : i <= j].install_path)]
             ELSE [raised |-> "", ret |-> None]

\* Game.find_titanfall2: [raised, ret, queried]
find_titanfall2(env, st) ==
    LET g == get(env, "TF2_GAME_DIR")
    IN  IF ~Truthy(g)
        THEN LET r == find_titanfall2_steam(st)
             IN  [raised |-> r.raised, ret |-> r.ret, queried |-> 1]
        ELSE [raised |-> "", ret |-> g, queried |-> 0]

-----------------------------------------------------------------------------
(* CompatBase *)

\* a name list without the background service
possible_names_Mut == {"EADesktop.exe"}


possible_names == {"EADesktop.exe", "EABackgroundSer"}

is_ea_running(ps) == \E n \in ps : n \in possible_names

\* CompatWine.__get_wineprefix: [raised, ret]
get_wineprefix(env) ==
    IF Truthy(get(env, "WINEPREFIX"))
    THEN [raised |-> "", ret |-> get(env, "WINEPREFIX")[1]]
    ELSE IF ~Truthy(get(env, "HOME"))
    THEN [raised |-> "Unable to find Wine prefix", ret |-> <<>>]
    ELSE [raised |-> "", ret |-> get(env, "HOME")[1] \o S("/.wine")]

\* CompatProton.__init__ up to the first exception it raises; the call of
\* find_proton_app names a function the module never imports or defines
CompatProtonInit(st) ==
    IF ~st.lib_paths THEN "Could not find Steam libraries"
    ELSE IF st.apps = <<>> THEN "Could not find any steam apps"
    ELSE IF ~\E i \in DOMAIN st.apps :
                st.apps[i].appid = TITANFALL2_APPID /\ st.apps[i].prefix_path # None
    THEN "Failed to find Titanfall 2 prefix"
    ELSE "NameError: name 'find_proton_app' is not defined"

-----------------------------------------------------------------------------
(* Processes *)

\* maybe_start_ea called without preexec_fn
ea_kwargs_Mut == [setsid |-> FALSE]

\* the keyword arguments main() gives maybe_start_ea: preexec_fn=os.setsid
ea_kwargs == [setsid |-> TRUE]
no_kwargs == [setsid |-> FALSE]

NextPid == Len(children) + 2

\* subprocess.Popen: the child stays in the caller's group unless it calls setsid
Popen(role, kwargs) ==
    Append(children, [role |-> role, pid |-> NextPid,
                      pgid |-> IF kwargs.setsid THEN NextPid ELSE OrchPgid])

\* os.getpgid(pid)
getpgid(pid) == (CHOOSE c \in { children[i] : i \in DOMAIN children } : c.pid = pid).pgid

Spawned(role) == \E i \in DOMAIN children : children[i].role = role

-----------------------------------------------------------------------------
(* main() *)

Init ==
    /\ os_name \in {"posix", "nt"}
    /\ pargs \in Pargs
    /\ environ \in OrchEnvs
    /\ steam \in SteamConfigs
    /\ cacheExe \in BOOLEAN
    /\ eaInstalled \in BOOLEAN
    /\ procs \in SUBSET ProcNames
    /\ pc = "Init"
    /\ hist = <<"Init">>
    /\ error = ""
    /\ abortedAt = ""
    /\ game_dir = None
    /\ p = NoPid
    /\ ea = NoPid
    /\ counter = 0
    /\ checks = 0
    /\ children = <<>>
    /\ exited = {}
    /\ signalled = {}
    /\ child_env = None
    /\ gameSteamQueries = 0
    /\ downloads = 0
    /\ extracts = 0
    /\ cacheHit = None
    /\ observed = None

Goto(l) == pc' = l /\ hist' = Append(hist, l) /\ UNCHANGED <<error, abortedAt>>

\* an exception leaves main(): the interpreter exits with a traceback
Raise(msg) ==
    /\ pc' = "Aborted"
    /\ hist' = Append(hist, "Aborted")
    /\ error' = msg
    /\ abortedAt' = pc

\* the process list changes behind the tool's back
ProcessListChanges ==
    /\ pc \notin {"Done", "Aborted"}
    /\ \E n \in ProcNames :
          procs' = IF n \in procs THEN procs \ {n} ELSE procs \cup {n}
    /\ UNCHANGED <<exited, worldVars, ghostVars, cacheExe, eaInstalled, pc, hist, error,
                   abortedAt, game_dir, p, ea, counter, checks, children,
                   signalled, child_env>>

\* main: the os.name test and g = Game()
GameInit ==
    /\ pc = "Init"
    /\ IF os_name # "posix"
       THEN /\ Raise("Running on unsupported Operating System")
            /\ UNCHANGED <<game_dir, gameSteamQueries>>
       ELSE LET r == find_titanfall2(environ, steam)
            IN  /\ gameSteamQueries' = gameSteamQueries + r.queried
                /\ IF r.raised # ""
                   THEN Raise(r.raised) /\ UNCHANGED game_dir
                   ELSE Goto("GameResolved") /\ game_dir' = r.ret
    /\ UNCHANGED <<exited, worldVars, cacheExe, eaInstalled, procs, p, ea, counter, checks,
                   children, signalled, child_env, downloads, extracts, cacheHit,
                   observed>>

\* main: c = compat_map[pargs.compat](g)
CompatInit ==
    /\ pc = "GameResolved"
    /\ IF pargs.compat = "proton"
       THEN Raise(CompatProtonInit(steam))
       ELSE Goto("CompatConstructed")
    /\ UNCHANGED <<exited, worldVars, ghostVars, cacheExe, eaInstalled, procs, game_dir, p,
                   ea, counter, checks, children, signalled, child_env>>

DownloadOutcomes == {"urlopen failed", "bad zip file", "extractall failed", "extracted"}

\* main: d = debug_map[pargs.debugger](g, c); DebuggerX64DBG.__init__ and __download
DebuggerInit ==
    /\ pc = "CompatConstructed"
    /\ IF pargs.debugger = "winedbg"
       THEN /\ Goto("CompatReady")
            /\ UNCHANGED <<cacheExe, downloads, extracts, cacheHit>>
       ELSE /\ cacheHit' = Some(cacheExe)
            /\ IF cacheExe
               THEN /\ Goto("CompatReady")
                    /\ UNCHANGED <<cacheExe, downloads, extracts>>
               ELSE \E outcome \in DownloadOutcomes, hasExe \in BOOLEAN, partial \in BOOLEAN :
                      /\ downloads' = downloads + 1
                      /\ extracts' = IF outcome \in {"extractall failed", "extracted"}
                                     THEN extracts + 1 ELSE extracts
                      /\ cacheExe' = CASE outcome = "extracted" -> hasExe
                                       [] outcome = "extractall failed" -> hasExe /\ partial
                                       [] OTHER -> FALSE
                      /\ IF outcome = "extracted"
                         THEN Goto("CompatReady")
                         ELSE Raise(outcome)
    /\ UNCHANGED <<exited, worldVars, eaInstalled, procs, game_dir, p, ea, counter, checks,
                   children, signalled, child_env, gameSteamQueries, observed>>

\* main: ea = None; if not pargs.no_ea: ea = c.maybe_start_ea(preexec_fn=os.setsid)
MaybeStartEA ==
    /\ pc = "CompatReady"
    /\ IF pargs.no_ea
       THEN Goto("EaStepDone") /\ UNCHANGED observed
       ELSE IF is_ea_running(procs)
       THEN Goto("EaStepDone") /\ observed' = Some(procs)
       ELSE Goto("StartEA") /\ observed' = Some(procs)
    /\ UNCHANGED <<exited, worldVars, cacheExe, eaInstalled, procs, game_dir, p, ea, counter,
                   checks, children, signalled, child_env, gameSteamQueries,
                   downloads, extracts, cacheHit>>

\* CompatWine.start_ea up to its first blocking call: __ea_installed, __winetricks
StartEA ==
    /\ pc = "StartEA"
    /\ IF get_wineprefix(environ).raised # ""
       THEN Raise(get_wineprefix(environ).raised) /\ UNCHANGED children
       ELSE IF eaInstalled
       THEN Goto("SpawnEA") /\ UNCHANGED children
       ELSE \E winetricks_path \in BOOLEAN, started \in BOOLEAN :
              IF ~winetricks_path
              THEN Raise("Failed to find winetricks") /\ UNCHANGED children
              ELSE IF ~started
              THEN Raise("OSError") /\ UNCHANGED children
              ELSE Goto("WinetricksWait") /\ children' = Popen("winetricks", no_kwargs)
    /\ UNCHANGED <<exited, worldVars, ghostVars, cacheExe, eaInstalled, procs, game_dir, p,
                   ea, counter, checks, signalled, child_env>>

\* __winetricks: p.wait() returns; start_ea: self.run(installer)
WinetricksExit ==
    /\ pc = "WinetricksWait"
    /\ exited' = exited \cup {children[Len(children)].pid}
    /\ IF game_dir = None
       THEN Raise("TypeError") /\ UNCHANGED <<children, child_env>>
       ELSE \E started \in BOOLEAN :
              IF ~started
              THEN Raise("OSError") /\ UNCHANGED <<children, child_env>>
              ELSE /\ Goto("InstallerWait")
                   /\ children' = Popen("installer", no_kwargs)
                   /\ child_env' = Some(CompatWineEnv(environ))
    /\ UNCHANGED <<worldVars, ghostVars, cacheExe, eaInstalled, procs, game_dir, p,
                   ea, counter, checks, signalled>>

\* start_ea: self.run(installer).wait() returns; the second __ea_installed test
InstallerExit ==
    /\ pc = "InstallerWait"
    /\ exited' = exited \cup {children[Len(children)].pid}
    /\ \E installed \in BOOLEAN :
          /\ eaInstalled' = installed
          /\ IF ~installed
             THEN Raise("Failed to install EA Desktop")
             ELSE Goto("SpawnEA")
    /\ UNCHANGED <<worldVars, ghostVars, cacheExe, procs, game_dir, p, ea, counter,
                   checks, children, signalled, child_env>>

\* start_ea: p = self.run(ea_path, **kwargs); wait_for_ea begins with counter = 0
SpawnEA ==
    /\ pc = "SpawnEA"
    /\ \E started \in BOOLEAN :
          IF ~started
          THEN Raise("OSError") /\ UNCHANGED <<children, child_env, p, counter, checks>>
          ELSE /\ Goto("WaitForEA")
               /\ children' = Popen("ea", ea_kwargs)
               /\ child_env' = Some(CompatWineEnv(environ))
               /\ p' = NextPid
               /\ counter' = 0
               /\ checks' = 0
    /\ UNCHANGED <<exited, worldVars, ghostVars, cacheExe, eaInstalled, procs, game_dir, ea,
                   signalled>>

\* one iteration of wait_for_ea's loop, or its exit; then start_ea returns p
WaitForEA ==
    /\ pc = "WaitForEA"
    /\ IF counter < WaitAttempts
       THEN IF is_ea_running(procs)
            THEN Goto("EaStepDone") /\ ea' = p /\ checks' = checks + 1
            ELSE /\ checks < MaxChecks
                 /\ checks' = checks + 1
                 /\ UNCHANGED <<pc, hist, error, abortedAt, ea>>
       ELSE Goto("EaStepDone") /\ ea' = p /\ UNCHANGED checks
    /\ UNCHANGED counter
    /\ UNCHANGED <<exited, worldVars, ghostVars, cacheExe, eaInstalled, procs, game_dir, p,
                   children, signalled, child_env>>

\* d.run() without .wait(): main goes on while the debugger runs
LaunchDebugger_Mut ==
    /\ pc = "EaStepDone"
    /\ \E started \in BOOLEAN :
          IF ~started
          THEN Raise("OSError") /\ UNCHANGED <<children, child_env>>
          ELSE /\ Goto("DebuggerExited")
               /\ children' = Popen("debugger", no_kwargs)
               /\ child_env' = Some(CompatWineEnv(environ))
    /\ UNCHANGED <<exited, worldVars, ghostVars, cacheExe, eaInstalled, procs, game_dir, p,
                   ea, counter, checks, signalled>>

\* main: d.run()
LaunchDebugger ==
    /\ pc = "EaStepDone"
    /\ \E started \in BOOLEAN :
          IF ~started
          THEN Raise("OSError") /\ UNCHANGED <<children, child_env>>
          ELSE /\ Goto("DebuggerRunning")
               /\ children' = Popen("debugger", no_kwargs)
               /\ child_env' = Some(CompatWineEnv(environ))
    /\ UNCHANGED <<exited, worldVars, ghostVars, cacheExe, eaInstalled, procs, game_dir, p,
                   ea, counter, checks, signalled>>

\* main: .wait() returns when the debugger has exited
DebuggerExit ==
    /\ pc = "DebuggerRunning"
    /\ Goto("DebuggerExited")
    /\ exited' = exited \cup {children[Len(children)].pid}
    /\ UNCHANGED <<worldVars, ghostVars, cacheExe, eaInstalled, procs, game_dir, p,
                   ea, counter, checks, children, signalled, child_env>>

\* teardown that forgets the persist option
Teardown_Mut ==
    /\ pc = "DebuggerExited"
    /\ Goto("Done")
    /\ signalled' = IF ea # NoPid THEN signalled \cup {getpgid(ea)} ELSE signalled
    /\ UNCHANGED <<exited, worldVars, ghostVars, cacheExe, eaInstalled, procs, game_dir, p,
                   ea, counter, checks, children, child_env>>

\* main: if not pargs.persist_ea and ea: os.killpg(os.getpgid(ea.pid), SIGTERM)
Teardown ==
    /\ pc = "DebuggerExited"
    /\ Goto("Done")
    /\ signalled' = IF ~pargs.persist_ea /\ ea # NoPid
                    THEN signalled \cup {getpgid(ea)}
                    ELSE signalled
    /\ UNCHANGED <<exited, worldVars, ghostVars, cacheExe, eaInstalled, procs, game_dir, p,
                   ea, counter, checks, children, child_env>>

BlockingPoints == {"WinetricksWait", "InstallerWait", "WaitForEA", "DebuggerRunning"}

\* a signal reaches nsdbg while it blocks: KeyboardInterrupt leaves main()
Interrupt ==
    /\ pc \in BlockingPoints
    /\ Raise("KeyboardInterrupt")
    /\ UNCHANGED <<exited, worldVars, ghostVars, cacheExe, eaInstalled, procs, game_dir, p,
                   ea, counter, checks, children, signalled, child_env>>

Next ==
    \/ ProcessListChanges
    \/ GameInit
    \/ CompatInit
    \/ DebuggerInit
    \/ MaybeStartEA
    \/ StartEA
    \/ WinetricksExit
    \/ InstallerExit
    \/ SpawnEA
    \/ WaitForEA
    \/ LaunchDebugger
    \/ DebuggerExit
    \/ Teardown
    \/ Interrupt

Spec == Init /\ [][Next]_vars

-----------------------------------------------------------------------------
(* run() as a function of the prior environment: CompatWine.run and        *)
(* CompatProton.run applied to an instance, for every prior environment    *)
(* with at most MaxPreset variables set.                                   *)

EnvNames ==
    {"TERM", "SteamGameId", "SteamAppId", "STEAM_COMPAT_CLIENT_INSTALL_PATH",
     "WINELOADAERNOEXEC", "PATH", "WINEDEBUG", "WINEDLLPATH", "LD_LIBRARY_PATH",
     "WINEPREFIX", "WINEESYNC", "WINEFSYNC", "WINEDLLOVERRIDES",
     "WINE_LARGE_ADDRESS_AWARE", "GST_PLUGIN_SYSTEM_PATH_1_0",
     "WINE_GST_REGISTRY_DIR", "DXVK_LOG_LEVEL", "VKD3D_DEBUG",
     "VKD3D_SHADER_DEBUG", "HOME"}

\* a variable that is set holds "", one segment or two segments
PriorValues == { <<>>, S("old"), S("old1") \o COLON \o S("old2") }

RECURSIVE KSubsets(_, _)
KSubsets(U, k) ==
    IF k = 0 THEN {{}}
    ELSE KSubsets(U, k - 1) \cup { T \cup {x} : T \in KSubsets(U, k - 1), x \in U }

PriorEnvs == UNION { [D -> PriorValues] : D \in KSubsets(EnvNames, MaxPreset) }

\* the fields of a constructed CompatProton instance
ProtonSelf ==
    [steam_path |-> S("/steam"), compattool |-> S("/steam/Proton"),
     compatdir |-> S("/steam/compatdata/1237970"),
     game_dir |-> Some(S("/steam/Titanfall2"))]

InitEnv ==
    /\ os_name = "posix"
    /\ pargs \in [compat : {"wine", "proton"}, debugger : {"winedbg"},
                  no_ea : {TRUE}, persist_ea : {FALSE}]
    /\ environ \in PriorEnvs
    /\ steam = [lib_paths |-> TRUE, apps |-> <<OtherApp, TF2App>>]
    /\ cacheExe = TRUE
    /\ eaInstalled = TRUE
    /\ procs = {}
    /\ pc = "Run"
    /\ hist = <<"Run">>
    /\ error = ""
    /\ abortedAt = ""
    /\ game_dir = ProtonSelf.game_dir
    /\ p = NoPid
    /\ ea = NoPid
    /\ counter = 0
    /\ checks = 0
    /\ children = <<>>
    /\ exited = {}
    /\ signalled = {}
    /\ child_env = None
    /\ gameSteamQueries = 0
    /\ downloads = 0
    /\ extracts = 0
    /\ cacheHit = None
    /\ observed = None

\* CompatWine.run(...)
WineRun ==
    /\ pc = "Run"
    /\ pargs.compat = "wine"
    /\ child_env' = Some(CompatWineEnv(environ))
    /\ children' = Popen("child", no_kwargs)
    /\ Goto("Returned")
    /\ UNCHANGED <<worldVars, ghostVars, cacheExe, eaInstalled, procs, game_dir, p,
                   ea, counter, checks, exited, signalled>>

\* CompatProton.run(...)
ProtonRun ==
    /\ pc = "Run"
    /\ pargs.compat = "proton"
    /\ child_env' = Some(CompatProtonEnv(environ, ProtonSelf))
    /\ children' = Popen("child", no_kwargs)
    /\ Goto("Returned")
    /\ UNCHANGED <<worldVars, ghostVars, cacheExe, eaInstalled, procs, game_dir, p,
                   ea, counter, checks, exited, signalled>>

NextEnv == WineRun \/ ProtonRun

SpecEnv == InitEnv /\ [][NextEnv]_vars

-----------------------------------------------------------------------------
(* Properties *)

InHist(l) == \E i \in DOMAIN hist : hist[i] = l
ChildrenOf(role) == { children[i] : i \in { j \in DOMAIN children : children[j].role = role } }
TF2Hits == { i \in DOMAIN steam.apps : steam.apps[i].appid = TITANFALL2_APPID }
\* Game() returned: main got past the game-resolution step
GameStepReturned == pc # "Init" /\ ~(pc = "Aborted" /\ abortedAt = "Init")

\* C1 (as stated): wait_for_ea gives up after WaitAttempts checks of
\* is_ea_running that saw no EA process: it never makes a further check.
C1_Original == checks <= WaitAttempts

\* C2 (as stated): (a) a non-empty TF2_GAME_DIR is returned unchanged and Steam
\* is not queried; (b) without it, the install path of app 1237970 is returned;
\* (c) without it and with a non-empty app list lacking 1237970, resolution
\* fails, so main never gets past the game step.
C2_Original ==
    LET ov == get(environ, "TF2_GAME_DIR")
    IN  os_name = "posix" /\ pc # "Init" =>
          /\ Truthy(ov) =>
                GameStepReturned /\ game_dir = ov /\ gameSteamQueries = 0
          /\ ~Truthy(ov) /\ steam.lib_paths /\ TF2Hits # {} =>
                /\ GameStepReturned
                /\ game_dir = Some(steam.apps[CHOOSE i \in TF2Hits : \A j \in TF2Hits : i <= j].install_path)
          /\ ~Truthy(ov) /\ steam.apps # <<>> /\ TF2Hits = {} =>
                ~GameStepReturned

\* the fixed DLL override string of the variant that ran
FixedOverrides == IF pargs.compat = "wine" THEN WINE_DLL_OVERRIDES ELSE PROTON_DLL_OVERRIDES
\* the variables the claim lists as set-if-absent
ListedSetIfAbsent ==
    {"TERM", "WINEDEBUG", "SteamGameId", "SteamAppId", "WINEPREFIX", "WINEESYNC", "WINEFSYNC"}

\* C3 (as stated): after run, every listed set-if-absent variable that was set
\* keeps its value, and WINEDLLOVERRIDES and DXVK_LOG_LEVEL hold the tool's
\* fixed values whatever they held before.
C3_Original ==
    pc = "Returned" =>
        /\ \A k \in ListedSetIfAbsent :
              k \in DOMAIN environ => child_env[1][k] = environ[k]
        /\ child_env[1]["WINEDLLOVERRIDES"] = FixedOverrides
        /\ child_env[1]["DXVK_LOG_LEVEL"] = S("none")

\* C3 (amended): after run, every listed set-if-absent variable and also
\* DXVK_LOG_LEVEL keeps its prior value when it was set; DXVK_LOG_LEVEL is
\* "none" when it was unset; WINEDLLOVERRIDES is the fixed override string,
\* followed by ";" and the prior value when the prior value was non-empty.
C3_EnvMerge ==
    pc = "Returned" =>
        /\ \A k \in ListedSetIfAbsent \cup {"DXVK_LOG_LEVEL"} :
              k \in DOMAIN environ => child_env[1][k] = environ[k]
        /\ "DXVK_LOG_LEVEL" \notin DOMAIN environ =>
              child_env[1]["DXVK_LOG_LEVEL"] = S("none")
        /\ child_env[1]["WINEDLLOVERRIDES"] =
              IF "WINEDLLOVERRIDES" \in DOMAIN environ /\ environ["WINEDLLOVERRIDES"] # <<>>
              THEN FixedOverrides \o S(";") \o environ["WINEDLLOVERRIDES"]
              ELSE FixedOverrides

C3_Witness ==
    /\ pc = "Returned"
    /\ "DXVK_LOG_LEVEL" \in DOMAIN environ
    /\ "WINEDLLOVERRIDES" \in DOMAIN environ
    /\ environ["WINEDLLOVERRIDES"] # <<>>
    /\ child_env[1]["DXVK_LOG_LEVEL"] = environ["DXVK_LOG_LEVEL"]

\* the path-list variables, by the helper CompatProton.run uses for each
AppendVars == {"PATH", "LD_LIBRARY_PATH"}
PrependVars == {"WINEDLLPATH", "GST_PLUGIN_SYSTEM_PATH_1_0"}

\* C4 (as stated): after CompatProton.run every path-list variable holds the
\* tool's segments and the whole prior value joined by ":", the tool's
\* segments first where prepend_args is used and last where append_args is
\* used; a variable that was unset or empty holds exactly the tool's segments.
C4_Original ==
    pc = "Returned" /\ pargs.compat = "proton" =>
        \A k \in AppendVars \cup PrependVars :
            LET new == ProtonPathSegments(ProtonSelf, k)
                old == get(environ, k)
            IN  child_env[1][k] =
                    IF ~Truthy(old) THEN new
                    ELSE IF k \in PrependVars THEN new \o S(":") \o old[1]
                    ELSE old[1] \o S(":") \o new

\* C5: SIGTERM goes to the EA app's group only after the debugger has exited,
\* and then exactly when --persist-ea is off and main holds a handle; main
\* holds a handle exactly when this run spawned the EA app; with --no-ea or an
\* EA app that was already running nothing is signalled.
C5_Teardown ==
    /\ signalled # {} => pc = "Done"
    /\ pc = "Done" =>
          /\ signalled # {} <=> (~pargs.persist_ea /\ ea # NoPid)
          /\ ea # NoPid <=> Spawned("ea")
          /\ ea # NoPid => signalled \subseteq {getpgid(ea)}
          /\ (pargs.no_ea \/ (observed # None /\ is_ea_running(observed[1]))) =>
                signalled = {}

C5_Witness == pc = "Done" /\ signalled # {} /\ ~pargs.persist_ea /\ Spawned("ea")

EANames == {"EADesktop.exe", "EABackgroundSer"}

\* C6: when the process list maybe_start_ea looked at held EADesktop.exe or
\* EABackgroundSer, start_ea is not entered, neither winetricks nor installer
\* nor EA app is spawned and no handle is returned; start_ea is entered only
\* when the list held neither name.
C6_SkipWhenRunning ==
    /\ observed # None /\ observed[1] \cap EANames # {} =>
          /\ ~InHist("StartEA")
          /\ ~Spawned("winetricks") /\ ~Spawned("installer") /\ ~Spawned("ea")
          /\ p = NoPid /\ ea = NoPid
    /\ InHist("StartEA") => observed # None /\ observed[1] \cap EANames = {}

C6_Witness ==
    /\ pc = "Done"
    /\ observed # None
    /\ observed[1] = {"EABackgroundSer", "explorer.exe"}
    /\ children = <<[role |-> "debugger", pid |-> 2, pgid |-> OrchPgid]>>

\* C7 (as stated): constructing DebuggerX64DBG with the executable in the
\* cache issues no request; with it absent there is exactly one download and,
\* when construction succeeds, one extraction and the executable is a file.
C7_Original ==
    pargs.debugger = "x64dbg" /\ cacheHit # None =>
        /\ cacheHit[1] => downloads = 0 /\ extracts = 0
        /\ ~cacheHit[1] =>
              /\ downloads = 1
              /\ InHist("CompatReady") => extracts = 1 /\ cacheExe

Rank(l) ==
    CASE l = "Init" -> 0
      [] l = "GameResolved" -> 1
      [] l = "CompatConstructed" -> 2
      [] l = "CompatReady" -> 3
      [] l = "StartEA" -> 4
      [] l = "WinetricksWait" -> 5
      [] l = "InstallerWait" -> 6
      [] l = "SpawnEA" -> 7
      [] l = "WaitForEA" -> 8
      [] l = "EaStepDone" -> 9
      [] l = "DebuggerRunning" -> 10
      [] l = "DebuggerExited" -> 11
      [] l = "Done" -> 12
      [] l = "Aborted" -> 13

DebuggerHasExited == \E c \in ChildrenOf("debugger") : c.pid \in exited

\* C8: main moves through its steps in the one order Init, GameResolved,
\* CompatReady, EA start, DebuggerRunning, teardown, Done; the debugger is
\* spawned only after game, compat layer and debugger were constructed and the
\* EA step returned; no SIGTERM is sent and Done is not reached before the
\* debugger has exited.
C8_LinearOrder ==
    /\ hist[Len(hist)] = pc
    /\ \A i \in 1..(Len(hist) - 1) : Rank(hist[i]) < Rank(hist[i + 1])
    /\ Spawned("debugger") =>
          /\ InHist("GameResolved") /\ InHist("CompatConstructed")
          /\ InHist("CompatReady") /\ InHist("EaStepDone")
          /\ ~pargs.no_ea => observed # None
          /\ \A c \in ChildrenOf("winetricks") \cup ChildrenOf("installer") : c.pid \in exited
    /\ pc = "DebuggerRunning" => ~DebuggerHasExited /\ signalled = {}
    /\ signalled # {} => DebuggerHasExited
    /\ pc = "Done" => DebuggerHasExited

C8_Witness ==
    /\ pc = "Done"
    /\ signalled # {}
    /\ InHist("InstallerWait")
    /\ InHist("WaitForEA")

\* C9: the EA app leads a process group of its own, every other child stays
\* in nsdbg's group, and SIGTERM is sent only to the EA app's group, never to
\* the group nsdbg is in.
C9_OwnGroup ==
    /\ \A c \in ChildrenOf("ea") : c.pgid = c.pid /\ c.pgid # OrchPgid
    /\ \A i \in DOMAIN children :
          children[i].role # "ea" => children[i].pgid = OrchPgid
    /\ \A g \in signalled :
          /\ g # OrchPgid
          /\ \E c \in ChildrenOf("ea") : c.pgid = g
          /\ \A i \in DOMAIN children : children[i].role # "ea" => children[i].pgid # g

C9_Witness ==
    /\ signalled # {}
    /\ Spawned("installer")
    /\ Spawned("debugger")

\* C10 (as stated): once this run has spawned the EA app and --persist-ea is
\* off, main never ends, normally or by an exception, without having sent
\* SIGTERM to the EA app's group or collected its exit.
C10_Original ==
    pc \in {"Done", "Aborted"} /\ ~pargs.persist_ea =>
        \A c \in ChildrenOf("ea") : c.pgid \in signalled \/ c.pid \in exited

====
